---- MODULE Spec2Model ----
(***************************************************************************)
(* A model of pcdet/models/dense_heads/anchor_head_single.py:              *)
(* AnchorHeadSingle, a dense anchor head with two classification heads     *)
(* (cls, type cls), a box regression head and an optional direction head.  *)
(*                                                                         *)
(* Tensors are records that keep what the claims are about: the layer that *)
(* produced them, the tensor they were computed from, the order of their   *)
(* dimensions and the size of each dimension.  Python dicts are functions  *)
(* whose DOMAIN is the set of keys present.  Python's None is the record   *)
(* None.  The collaborators of the superclass AnchorHeadTemplate           *)
(* (assign_targets, generate_predicted_boxes, the loss helpers) are not    *)
(* part of this file; they are modelled as constructors that record the    *)
(* arguments they were called with.                                        *)
(***************************************************************************)
EXTENDS Integers, Sequences, FiniteSets, Bags

VARIABLES
    cfg,               \* the constructor's arguments
    head,              \* the fields __init__ sets on self
    training,          \* self.training (nn.Module mode flag)
    forward_ret_dict,  \* self.forward_ret_dict
    calls,             \* number of forward calls made so far
    op,                \* the operation that ran last
    fwd_training,      \* self.training as the last forward call read it
    data_dict,         \* the data_dict the last forward call returned
    calls_log,         \* the collaborator calls the last forward call made, in order
    loss_ret           \* what the last get_cls_layer_loss call returned or raised

vars == <<cfg, head, training, forward_ret_dict, calls, op, fwd_training,
          data_dict, calls_log, loss_ret>>

(***************************************************************************)
(* Bounds                                                                  *)
(***************************************************************************)
MaxCalls == 3
MaxClass == 2
MaxBatch == 2

\* per-class anchor counts per location, as the anchor generator reports them
AnchorCounts == {<<2>>, <<1, 2>>}
\* box_coder.code_size
CodeSizes == {7}
\* the feature map's channel count, and its height and width
InputChannels == {4}
SpatialShapes == {<<1, 2>>, <<2, 2>>}
\* model_cfg.NUM_DIR_BINS
DirBins == {2}

(***************************************************************************)
(* Python values                                                           *)
(***************************************************************************)
None == [kind |-> "None"]

\* Python's True and False as configuration values
PyBool(b) == [kind |-> "bool", value |-> b]

EmptyDict == [k \in {} |-> None]

\* d[k] = v
Put(d, k, v) == [x \in (DOMAIN d) \cup {k} |-> IF x = k THEN v ELSE d[x]]

\* d.update(e)
Update(d, e) == [x \in (DOMAIN d) \cup (DOMAIN e) |-> IF x \in DOMAIN e THEN e[x] ELSE d[x]]

\* d.get(k, None)
Get(d, k) == IF k \in DOMAIN d THEN d[k] ELSE None

\* sum(xs)
RECURSIVE Sum(_)
Sum(xs) == IF xs = <<>> THEN 0 ELSE Head(xs) + Sum(Tail(xs))

(***************************************************************************)
(* The configuration a head is built from.  model_cfg is a dict: the key   *)
(* USE_DIRECTION_CLASSIFIER may be missing, or be True or False.           *)
(***************************************************************************)
ModelCfgs ==
    { [k \in {"NUM_DIR_BINS"} |-> b] : b \in DirBins }
    \cup
    { [k \in {"NUM_DIR_BINS", "USE_DIRECTION_CLASSIFIER"} |->
          IF k = "NUM_DIR_BINS" THEN b ELSE PyBool(u)] : b \in DirBins, u \in BOOLEAN }

\* The keys assign_targets returns: the three the comment in forward documents,
\* or those and the labels of the type head.
DocumentedTargetKeys == {"box_cls_labels", "box_reg_targets", "reg_weights"}
TargetKeySets == {DocumentedTargetKeys, DocumentedTargetKeys \cup {"box_cls_type_labels"}}

Configs ==
    [ model_cfg : ModelCfgs,
      input_channels : InputChannels,
      num_class : (1..MaxClass) \X (1..MaxClass),
      anchors_per_location : AnchorCounts,
      code_size : CodeSizes,
      predict_boxes_when_training : BOOLEAN,
      target_keys : TargetKeySets ]

(***************************************************************************)
(* Layers and tensors                                                      *)
(***************************************************************************)
\* nn.Conv2d(in_channels, out_channels, kernel_size=1)
Conv2d(name, in_channels, out_channels) ==
    [kind |-> "Conv2d", name |-> name, in_channels |-> in_channels,
     out_channels |-> out_channels]

\* layer(x): a 1x1 convolution keeps N, H, W and replaces the channel count
ApplyConv(layer, x) ==
    [kind |-> "tensor", layer |-> layer.name, src |-> x.id, dtype |-> x.dtype,
     dims |-> x.dims,
     size |-> [d \in DOMAIN x.size |-> IF d = "C" THEN layer.out_channels ELSE x.size[d]]]

\* t.permute(0, 3, 1, 2): the channels are not moved last
PermuteWrongOrder(t) ==
    [t EXCEPT !.dims = <<t.dims[1], t.dims[4], t.dims[2], t.dims[3]>>]

\* t.permute(0, 2, 3, 1).contiguous()
Permute(t) ==
    [t EXCEPT !.dims = <<t.dims[1], t.dims[3], t.dims[4], t.dims[2]>>]

(***************************************************************************)
(* AnchorHeadSingle.__init__                                               *)
(***************************************************************************)
\* model_cfg.get('USE_DIRECTION_CLASSIFIER', None) is not None
HasDirectionClassifier(model_cfg) ==
    Get(model_cfg, "USE_DIRECTION_CLASSIFIER") /= None

\* The fields the constructor sets; A is the sum of the per-class anchor counts.
AnchorHeadSingle_init(c) ==
    LET A == Sum(c.anchors_per_location) IN
    [ model_cfg |-> c.model_cfg,
      num_class |-> c.num_class,
      code_size |-> c.code_size,
      predict_boxes_when_training |-> c.predict_boxes_when_training,
      num_anchors_per_location |-> A,
      conv_cls |-> Conv2d("conv_cls", c.input_channels, A * c.num_class[1]),
      conv_box |-> Conv2d("conv_box", c.input_channels, A * c.code_size),
      conv_type_cls |-> Conv2d("conv_type_cls", c.input_channels, A * c.num_class[2]),
      conv_dir_cls |->
          IF HasDirectionClassifier(c.model_cfg)
          THEN Conv2d("conv_dir_cls", c.input_channels, A * c.model_cfg["NUM_DIR_BINS"])
          ELSE None ]

(***************************************************************************)
(* Collaborators inherited from AnchorHeadTemplate                         *)
(***************************************************************************)
\* self.assign_targets(gt_boxes=...): a dict of per-anchor targets
assign_targets(keys, gt_boxes) ==
    [k \in keys |-> [kind |-> "target", key |-> k, gt_boxes |-> gt_boxes]]

\* self.generate_predicted_boxes(...): the pair (batch_cls_preds, batch_box_preds)
generate_predicted_boxes(batch_size, cls_preds, box_preds, dir_cls_preds) ==
    << [kind |-> "batch_cls_preds", batch_size |-> batch_size, cls_preds |-> cls_preds],
       [kind |-> "batch_box_preds", batch_size |-> batch_size, box_preds |-> box_preds,
        dir_cls_preds |-> dir_cls_preds] >>

\* the record of one call of generate_predicted_boxes
GenCall(batch_size, cls_preds, box_preds, dir_cls_preds) ==
    [fn |-> "generate_predicted_boxes", batch_size |-> batch_size,
     cls_preds |-> cls_preds, box_preds |-> box_preds, dir_cls_preds |-> dir_cls_preds]

(***************************************************************************)
(* AnchorHeadSingle.forward                                                *)
(***************************************************************************)
\* The data_dict the n-th forward call is given.
InputDataDict(n, batch, hw, channels) ==
    LET x == [kind |-> "tensor", layer |-> "backbone", id |-> n, dtype |-> "float32",
              dims |-> <<"N", "C", "H", "W">>,
              size |-> [d \in {"N", "C", "H", "W"} |->
                            CASE d = "N" -> batch
                              [] d = "C" -> channels
                              [] d = "H" -> hw[1]
                              [] d = "W" -> hw[2]]]
        keys == {"spatial_features_2d", "gt_boxes", "batch_size"}
    IN  [k \in keys |->
            CASE k = "spatial_features_2d" -> x
              [] k = "gt_boxes" -> [kind |-> "gt_boxes", id |-> n]
              [] k = "batch_size" -> batch]

\* lines 60-68 and 74-79: the four predictions of one call
HeadOutputs(h, x) ==
    [ cls_preds |-> Permute(ApplyConv(h.conv_cls, x)),
      box_preds |-> Permute(ApplyConv(h.conv_box, x)),
      cls_type_preds |-> Permute(ApplyConv(h.conv_type_cls, x)),
      dir_cls_preds |->
          IF h.conv_dir_cls /= None
          THEN Permute(ApplyConv(h.conv_dir_cls, x))
          ELSE None ]

\* lines 70-77: what forward stores in forward_ret_dict before the targets
StorePreds(h, frd, out) ==
    LET a == Put(frd, "cls_preds", out.cls_preds)
        b == Put(a, "box_preds", out.box_preds)
        c == Put(b, "cls_type_preds", out.cls_type_preds)
    IN  IF h.conv_dir_cls /= None
        THEN Put(c, "dir_cls_preds", out.dir_cls_preds)
        ELSE c

\* targets assigned in every mode
AssignsTargetsAlways(mode) == TRUE

\* line 81
AssignsTargets(mode) == mode

\* boxes generated in inference mode only, the flag ignored
GeneratesBoxesInferenceOnly(h, mode) == ~mode

\* line 89
GeneratesBoxes(h, mode) == (~mode) \/ h.predict_boxes_when_training

\* lines 81-87: forward_ret_dict and the collaborator calls made
TargetStep(keys, mode, frd, dd) ==
    IF AssignsTargets(mode)
    THEN [ frd |-> Update(frd, assign_targets(keys, dd["gt_boxes"])),
           log |-> << [fn |-> "assign_targets", gt_boxes |-> dd["gt_boxes"]] >> ]
    ELSE [ frd |-> frd, log |-> << >> ]

\* the box output of the second call kept instead of the first call's
BoxStepSecondBoxes(h, mode, dd, out) ==
    IF GeneratesBoxes(h, mode)
    THEN LET first == generate_predicted_boxes(dd["batch_size"], out.cls_preds,
                                               out.box_preds, out.dir_cls_preds)
             second == generate_predicted_boxes(dd["batch_size"], out.cls_type_preds,
                                                out.box_preds, None)
             d1 == Put(dd, "batch_cls_preds", first[1])
             d2 == Put(d1, "batch_box_preds", second[2])
             d3 == Put(d2, "batch_cls_type_preds", second[1])
             d4 == Put(d3, "cls_preds_normalized", FALSE)
         IN  [ data_dict |-> d4,
               log |-> << GenCall(dd["batch_size"], out.cls_preds, out.box_preds,
                                  out.dir_cls_preds),
                          GenCall(dd["batch_size"], out.cls_type_preds, out.box_preds,
                                  None) >> ]
    ELSE [ data_dict |-> dd, log |-> << >> ]

\* lines 89-101: the data_dict and the collaborator calls made
BoxStep(h, mode, dd, out) ==
    IF GeneratesBoxes(h, mode)
    THEN LET first == generate_predicted_boxes(dd["batch_size"], out.cls_preds,
                                               out.box_preds, out.dir_cls_preds)
             second == generate_predicted_boxes(dd["batch_size"], out.cls_type_preds,
                                                out.box_preds, None)
             d1 == Put(dd, "batch_cls_preds", first[1])
             d2 == Put(d1, "batch_box_preds", first[2])
             d3 == Put(d2, "batch_cls_type_preds", second[1])
             d4 == Put(d3, "cls_preds_normalized", FALSE)
         IN  [ data_dict |-> d4,
               log |-> << GenCall(dd["batch_size"], out.cls_preds, out.box_preds,
                                  out.dir_cls_preds),
                          GenCall(dd["batch_size"], out.cls_type_preds, out.box_preds,
                                  None) >> ]
    ELSE [ data_dict |-> dd, log |-> << >> ]

Forward ==
    /\ calls < MaxCalls
    /\ \E batch \in 1..MaxBatch, hw \in SpatialShapes :
          LET dd == InputDataDict(calls + 1, batch, hw, cfg.input_channels)
              out == HeadOutputs(head, dd["spatial_features_2d"])
              stored == StorePreds(head, forward_ret_dict, out)
              tgt == TargetStep(cfg.target_keys, training, stored, dd)
              box == BoxStep(head, training, dd, out)
          IN  /\ forward_ret_dict' = tgt.frd
              /\ data_dict' = box.data_dict
              /\ calls_log' = tgt.log \o box.log
    /\ calls' = calls + 1
    /\ fwd_training' = training
    /\ op' = "forward"
    /\ loss_ret' = None
    /\ UNCHANGED <<cfg, head, training>>

(***************************************************************************)
(* nn.Module.train() and nn.Module.eval()                                  *)
(***************************************************************************)
Train ==
    /\ training' = TRUE
    /\ op' = "train"
    /\ UNCHANGED <<cfg, head, forward_ret_dict, calls, fwd_training, data_dict,
                   calls_log, loss_ret>>

Eval ==
    /\ training' = FALSE
    /\ op' = "eval"
    /\ UNCHANGED <<cfg, head, forward_ret_dict, calls, fwd_training, data_dict,
                   calls_log, loss_ret>>

(***************************************************************************)
(* AnchorHeadSingle.get_cls_layer_loss                                     *)
(***************************************************************************)
\* the number of elements of a tensor
RECURSIVE NumElements(_, _)
NumElements(dims, size) ==
    IF dims = <<>> THEN 1 ELSE size[Head(dims)] * NumElements(Tail(dims), size)

\* t.view(batch_size, -1, n) is defined when the element count divides evenly
CanView(t, batch_size, n) == NumElements(t.dims, t.size) % (batch_size * n) = 0

\* t.view(batch_size, -1, n): the last dimension of the result runs over the
\* innermost dimension of t
View(t, batch_size, n) ==
    [kind |-> "tensor", layer |-> t.layer, src |-> t.src, dtype |-> t.dtype,
     dims |-> <<"N", "anchor", "class">>,
     size |-> [d \in {"N", "anchor", "class"} |->
                  CASE d = "N" -> batch_size
                    [] d = "class" -> n
                    [] d = "anchor" -> NumElements(t.dims, t.size) \div (batch_size * n)],
     innermost |-> t.dims[Len(t.dims)]]

\* self._get_one_hot_box_labels(box_cls_labels=..., n_labels=..., dtype=...)
get_one_hot_box_labels(box_cls_labels, n_labels, dtype) ==
    [kind |-> "one_hot", labels |-> box_cls_labels, n_labels |-> n_labels, dtype |-> dtype]

\* self._get_cls_weights(box_cls_labels)
get_cls_weights(box_cls_labels) ==
    [kind |-> "cls_weights", labels |-> box_cls_labels]

\* self._get_weighted_loss(preds, one_hot_targets, weights, batch_size): a scalar,
\* kept as the bag of the terms it is the sum of
get_weighted_loss(preds, one_hot_targets, weights, batch_size) ==
    SetToBag({[kind |-> "weighted_loss", preds |-> preds, targets |-> one_hot_targets,
               weights |-> weights, batch_size |-> batch_size]})

\* an exception leaving get_cls_layer_loss, with the keys looked up before it
Raise(exc, what, reads) ==
    [status |-> "error", exc |-> exc, what |-> what, reads |-> reads]

\* lines 107-119: classification loss head 0
Head0Loss(h, frd) ==
    LET cls_preds == frd["cls_preds"]
        box_cls_labels == frd["box_cls_labels"]
        one_hot_targets == get_one_hot_box_labels(box_cls_labels, h.num_class[1],
                                                  cls_preds.dtype)
        cls_weights == get_cls_weights(box_cls_labels)
        batch_size == cls_preds.size[cls_preds.dims[1]]
    IN  get_weighted_loss(View(cls_preds, batch_size, h.num_class[1]),
                          one_hot_targets, cls_weights, batch_size)

\* head 1 weighted with the weights of head 0
Head1LossHead0Weights(h, frd) ==
    LET cls_preds == frd["cls_preds"]
        batch_size == cls_preds.size[cls_preds.dims[1]]
        cls_type_preds == Get(frd, "cls_type_preds")
        box_cls_type_labels == Get(frd, "box_cls_type_labels")
        one_hot_type_targets == get_one_hot_box_labels(box_cls_type_labels,
                                                       h.num_class[2],
                                                       cls_type_preds.dtype)
        cls_weights == get_cls_weights(frd["box_cls_labels"])
    IN  get_weighted_loss(View(cls_type_preds, batch_size, h.num_class[2]),
                          one_hot_type_targets, cls_weights, batch_size)

\* lines 122-133: classification loss head 1
Head1Loss(h, frd) ==
    LET cls_preds == frd["cls_preds"]
        batch_size == cls_preds.size[cls_preds.dims[1]]
        cls_type_preds == Get(frd, "cls_type_preds")
        box_cls_type_labels == Get(frd, "box_cls_type_labels")
        one_hot_type_targets == get_one_hot_box_labels(box_cls_type_labels,
                                                       h.num_class[2],
                                                       cls_type_preds.dtype)
        cls_type_weights == get_cls_weights(box_cls_type_labels)
    IN  get_weighted_loss(View(cls_type_preds, batch_size, h.num_class[2]),
                          one_hot_type_targets, cls_type_weights, batch_size)

\* lines 136-142: the pair (cls_loss, tb_dict)
CombineLosses(cls_fdi_loss, cls_type_loss) ==
    LET cls_loss == cls_fdi_loss (+) cls_type_loss
        keys == {"rpn_loss_type_cls", "rpn_loss_fdi_cls", "rpn_loss_cls"}
    IN  [ cls_loss |-> cls_loss,
          tb_dict |-> [k \in keys |->
                          CASE k = "rpn_loss_type_cls" -> cls_type_loss
                            [] k = "rpn_loss_fdi_cls" -> cls_fdi_loss
                            [] k = "rpn_loss_cls" -> cls_loss] ]

\* the keys get_cls_layer_loss looks up in forward_ret_dict, in order
LossReads == <<"cls_preds", "box_cls_labels", "cls_type_preds", "box_cls_type_labels">>

\* get_cls_layer_loss as a whole: what it returns, or the exception it ends in
ClsLayerLoss(h, frd) ==
    IF "cls_preds" \notin DOMAIN frd
    THEN Raise("KeyError", "cls_preds", SubSeq(LossReads, 1, 1))
    ELSE IF "box_cls_labels" \notin DOMAIN frd
    THEN Raise("KeyError", "box_cls_labels", SubSeq(LossReads, 1, 2))
    ELSE IF ~CanView(frd["cls_preds"], frd["cls_preds"].size[frd["cls_preds"].dims[1]],
                     h.num_class[1])
    THEN Raise("RuntimeError", "cls_preds.view", SubSeq(LossReads, 1, 2))
    ELSE IF Get(frd, "cls_type_preds") = None
    THEN Raise("AttributeError", "cls_type_preds.dtype", LossReads)
    ELSE IF Get(frd, "box_cls_type_labels") = None
    THEN Raise("AttributeError", "box_cls_type_labels", LossReads)
    ELSE IF ~CanView(frd["cls_type_preds"], frd["cls_preds"].size[frd["cls_preds"].dims[1]],
                     h.num_class[2])
    THEN Raise("RuntimeError", "cls_type_preds.view", LossReads)
    ELSE LET r == CombineLosses(Head0Loss(h, frd), Head1Loss(h, frd))
         IN  [status |-> "ok", cls_loss |-> r.cls_loss, tb_dict |-> r.tb_dict,
              reads |-> LossReads]

GetClsLayerLoss ==
    /\ loss_ret' = ClsLayerLoss(head, forward_ret_dict)
    /\ op' = "get_cls_layer_loss"
    /\ UNCHANGED <<cfg, head, training, forward_ret_dict, calls, fwd_training,
                   data_dict, calls_log>>

(***************************************************************************)
(* The head after construction, and its operations                         *)
(***************************************************************************)
Init ==
    /\ cfg \in Configs
    /\ head = AnchorHeadSingle_init(cfg)
    /\ training = TRUE
    /\ forward_ret_dict = EmptyDict
    /\ calls = 0
    /\ op = "init"
    /\ fwd_training = FALSE
    /\ data_dict = None
    /\ calls_log = << >>
    /\ loss_ret = None

Next == Forward \/ GetClsLayerLoss \/ Train \/ Eval

Spec == Init /\ [][Next]_vars

(***************************************************************************)
(* Properties                                                              *)
(***************************************************************************)
\* A: the sum of the per-class anchor counts per location
AnchorsPerLocation == Sum(cfg.anchors_per_location)

Forwarded == calls >= 1

\* the calls of generate_predicted_boxes the last forward call made, in order
GenCalls == SelectSeq(calls_log, LAMBDA c : c.fn = "generate_predicted_boxes")

\* the calls of assign_targets the last forward call made
AssignCalls == SelectSeq(calls_log, LAMBDA c : c.fn = "assign_targets")

BatchKeys == {"batch_cls_preds", "batch_box_preds", "batch_cls_type_preds"}

\* forward_ret_dict[k] was computed from the feature map of the last forward
\* call, is laid out [N, H, W, C] and has c channels
ChannelsLast(k, c) ==
    /\ k \in DOMAIN forward_ret_dict
    /\ LET t == forward_ret_dict[k]
           x == data_dict["spatial_features_2d"]
       IN  /\ x.id = calls
           /\ t.src = x.id
           /\ t.dims = <<"N", "H", "W", "C">>
           /\ t.size["C"] = c
           /\ \A d \in {"N", "H", "W"} : t.size[d] = x.size[d]

\* C1: after every forward call, in either mode, forward_ret_dict holds cls_preds,
\* cls_type_preds and box_preds, all computed from the spatial_features_2d of that
\* call, laid out [N, H, W, C], with C = A*num_class[0], A*num_class[1] and
\* A*code_size, A being the sum of the per-class anchor counts.
C1_PredsChannelsLast ==
    Forwarded =>
        /\ ChannelsLast("cls_preds", AnchorsPerLocation * cfg.num_class[1])
        /\ ChannelsLast("cls_type_preds", AnchorsPerLocation * cfg.num_class[2])
        /\ ChannelsLast("box_preds", AnchorsPerLocation * cfg.code_size)
        /\ forward_ret_dict["cls_preds"].layer = "conv_cls"
        /\ forward_ret_dict["cls_type_preds"].layer = "conv_type_cls"
        /\ forward_ret_dict["box_preds"].layer = "conv_box"

\* an inference-mode call after an earlier call, two anchor classes, heads of
\* different class counts
C1_Witness ==
    /\ op = "forward"
    /\ calls >= 2
    /\ ~fwd_training
    /\ Len(cfg.anchors_per_location) = 2
    /\ cfg.num_class[1] /= cfg.num_class[2]

\* C2: the direction head follows the configuration: conv_dir_cls exists, forward
\* writes dir_cls_preds to forward_ret_dict and hands it to box generation, exactly
\* when USE_DIRECTION_CLASSIFIER is set to true; otherwise conv_dir_cls is None,
\* dir_cls_preds is never written and box generation receives None.
C2_DirectionFollowsConfig ==
    LET on == Get(cfg.model_cfg, "USE_DIRECTION_CLASSIFIER") = PyBool(TRUE) IN
    op = "forward" =>
        /\ (head.conv_dir_cls /= None) <=> on
        /\ ("dir_cls_preds" \in DOMAIN forward_ret_dict) <=> on
        /\ GenCalls /= << >> => ((GenCalls[1].dir_cls_preds /= None) <=> on)

\* C3 as stated: every forward call, whatever the mode and the flag
\* predict_boxes_when_training, returns the data_dict with batch_cls_preds,
\* batch_box_preds and batch_cls_type_preds produced by that call.
C3_AlwaysPredictions ==
    op = "forward" =>
        /\ BatchKeys \subseteq DOMAIN data_dict
        /\ data_dict["batch_cls_preds"].cls_preds.src = calls
        /\ data_dict["batch_box_preds"].box_preds.src = calls
        /\ data_dict["batch_cls_type_preds"].cls_preds.src = calls

\* C3 amended: every forward call returns the data_dict it was given; the returned
\* dict holds batch_cls_preds, batch_box_preds and batch_cls_type_preds produced by
\* that call whenever the head is not in training mode or predict_boxes_when_training
\* is true, and none of them in a training-mode call with the flag false.
C3_PredictionsWhenGenerated ==
    op = "forward" =>
        /\ data_dict["spatial_features_2d"].id = calls
        /\ data_dict["gt_boxes"].id = calls
        /\ IF (~fwd_training) \/ cfg.predict_boxes_when_training
           THEN /\ BatchKeys \subseteq DOMAIN data_dict
                /\ data_dict["batch_cls_preds"].cls_preds.src = calls
                /\ data_dict["batch_cls_preds"].cls_preds.layer = "conv_cls"
                /\ data_dict["batch_box_preds"].box_preds.src = calls
                /\ data_dict["batch_box_preds"].box_preds.layer = "conv_box"
                /\ data_dict["batch_cls_type_preds"].cls_preds.src = calls
                /\ data_dict["batch_cls_type_preds"].cls_preds.layer = "conv_type_cls"
           ELSE BatchKeys \cap DOMAIN data_dict = {}

\* a training-mode call with predict_boxes_when_training true
C3_Witness ==
    /\ op = "forward"
    /\ fwd_training
    /\ cfg.predict_boxes_when_training
    /\ BatchKeys \subseteq DOMAIN data_dict

\* the term of head 0 is computed from cls_preds, box_cls_labels and num_class[0]
\* alone, the term of head 1 from cls_type_preds, box_cls_type_labels and
\* num_class[1] alone
OwnInputs(term, preds_key, layer, labels_key, n) ==
    /\ term.preds.layer = layer
    /\ term.preds.src = forward_ret_dict[preds_key].src
    /\ term.preds.size["class"] = n
    /\ term.preds.innermost = "C"
    /\ term.targets.labels = forward_ret_dict[labels_key]
    /\ term.targets.labels.key = labels_key
    /\ term.targets.n_labels = n
    /\ term.weights.labels = forward_ret_dict[labels_key]

\* C4: get_cls_layer_loss returns cls_loss, the sum of two weighted losses, head 0
\* from (cls_preds, box_cls_labels, num_class[0]) and head 1 from (cls_type_preds,
\* box_cls_type_labels, num_class[1]), each with weights from its own labels;
\* tb_dict has exactly the keys rpn_loss_fdi_cls, rpn_loss_type_cls, rpn_loss_cls,
\* and rpn_loss_cls = rpn_loss_fdi_cls + rpn_loss_type_cls.
C4_ClsLossIsSumOfHeads ==
    (op = "get_cls_layer_loss" /\ loss_ret.status = "ok") =>
        /\ DOMAIN loss_ret.tb_dict =
               {"rpn_loss_fdi_cls", "rpn_loss_type_cls", "rpn_loss_cls"}
        /\ loss_ret.tb_dict["rpn_loss_cls"] =
               loss_ret.tb_dict["rpn_loss_fdi_cls"] (+) loss_ret.tb_dict["rpn_loss_type_cls"]
        /\ loss_ret.tb_dict["rpn_loss_cls"] = loss_ret.cls_loss
        /\ \E t0 \in BagToSet(loss_ret.cls_loss), t1 \in BagToSet(loss_ret.cls_loss) :
              /\ loss_ret.cls_loss = SetToBag({t0}) (+) SetToBag({t1})
              /\ loss_ret.tb_dict["rpn_loss_fdi_cls"] = SetToBag({t0})
              /\ loss_ret.tb_dict["rpn_loss_type_cls"] = SetToBag({t1})
              /\ OwnInputs(t0, "cls_preds", "conv_cls", "box_cls_labels",
                           cfg.num_class[1])
              /\ OwnInputs(t1, "cls_type_preds", "conv_type_cls", "box_cls_type_labels",
                           cfg.num_class[2])

\* a loss returned for heads of different class counts
C4_Witness ==
    /\ op = "get_cls_layer_loss"
    /\ loss_ret.status = "ok"
    /\ cfg.num_class[1] /= cfg.num_class[2]

\* C5: after a training-mode forward call whose target assignment supplies the
\* documented keys (box_cls_labels, box_reg_targets, reg_weights),
\* get_cls_layer_loss finds every entry it reads in forward_ret_dict and returns
\* a loss; with no training-mode forward call before it, it ends in an error.
\* (Every training-mode call stores box_cls_labels and nothing removes it, so the
\* key is absent exactly when no training-mode call has been made.)
C5_LossAvailableInTraining ==
    op = "get_cls_layer_loss" =>
        /\ (Forwarded /\ fwd_training /\ DocumentedTargetKeys \subseteq cfg.target_keys) =>
               /\ loss_ret.status = "ok"
               /\ \A i \in 1..Len(loss_ret.reads) :
                      loss_ret.reads[i] \in DOMAIN forward_ret_dict
        /\ ("box_cls_labels" \notin DOMAIN forward_ret_dict) => loss_ret.status = "error"

\* C6: in forward, assign_targets runs (on data_dict['gt_boxes']) iff the head is
\* in training mode; box generation runs iff the head is not in training mode or
\* predict_boxes_when_training is true; cls_preds_normalized is set to False
\* exactly when box generation runs; a training-mode call with the flag false
\* writes none of batch_cls_preds, batch_box_preds, batch_cls_type_preds,
\* cls_preds_normalized.
C6_ModeDecidesSteps ==
    Forwarded =>
        /\ (AssignCalls /= << >>) <=> fwd_training
        /\ \A i \in 1..Len(AssignCalls) : AssignCalls[i].gt_boxes = data_dict["gt_boxes"]
        /\ Len(AssignCalls) <= 1
        /\ (GenCalls /= << >>) <=> ((~fwd_training) \/ cfg.predict_boxes_when_training)
        /\ ("cls_preds_normalized" \in DOMAIN data_dict) <=> (GenCalls /= << >>)
        /\ "cls_preds_normalized" \in DOMAIN data_dict =>
               data_dict["cls_preds_normalized"] = FALSE
        /\ (fwd_training /\ ~cfg.predict_boxes_when_training) =>
               (BatchKeys \cup {"cls_preds_normalized"}) \cap DOMAIN data_dict = {}

\* a training-mode call with predict_boxes_when_training false, after a call
\* made in inference mode
C6_Witness ==
    /\ op = "forward"
    /\ calls >= 2
    /\ fwd_training
    /\ ~cfg.predict_boxes_when_training
    /\ AssignCalls /= << >>
    /\ "box_cls_labels" \in DOMAIN forward_ret_dict
    /\ forward_ret_dict["box_cls_labels"].gt_boxes.id = calls

\* C7: when forward generates boxes it calls generate_predicted_boxes twice with
\* the same box_preds and batch_size: first with cls_preds and the direction
\* predictions, giving batch_cls_preds and batch_box_preds; then with
\* cls_type_preds and dir_cls_preds=None, giving only batch_cls_type_preds; so
\* batch_box_preds is the first call's direction-aware box output.
C7_TwoGenerateCalls ==
    (Forwarded /\ GenCalls /= << >>) =>
        /\ Len(GenCalls) = 2
        /\ LET g1 == GenCalls[1]
               g2 == GenCalls[2]
               dir == IF head.conv_dir_cls /= None
                      THEN forward_ret_dict["dir_cls_preds"]
                      ELSE None
               r1 == generate_predicted_boxes(g1.batch_size, g1.cls_preds,
                                              g1.box_preds, g1.dir_cls_preds)
               r2 == generate_predicted_boxes(g2.batch_size, g2.cls_preds,
                                              g2.box_preds, g2.dir_cls_preds)
           IN  /\ g1.box_preds = forward_ret_dict["box_preds"]
               /\ g2.box_preds = g1.box_preds
               /\ g1.batch_size = data_dict["batch_size"]
               /\ g2.batch_size = g1.batch_size
               /\ g1.cls_preds = forward_ret_dict["cls_preds"]
               /\ g1.dir_cls_preds = dir
               /\ dir /= None => dir.src = calls
               /\ g2.cls_preds = forward_ret_dict["cls_type_preds"]
               /\ g2.dir_cls_preds = None
               /\ data_dict["batch_cls_preds"] = r1[1]
               /\ data_dict["batch_box_preds"] = r1[2]
               /\ data_dict["batch_cls_type_preds"] = r2[1]
               /\ data_dict["batch_box_preds"].dir_cls_preds = dir

\* boxes generated by a head that has a direction layer
C7_Witness ==
    /\ op = "forward"
    /\ Len(GenCalls) = 2
    /\ head.conv_dir_cls /= None
    /\ data_dict["batch_box_preds"].dir_cls_preds /= None

\* C8: whenever forward_ret_dict holds both predictions (cls_preds, cls_type_preds)
\* and labels (box_cls_labels), the labels were written by the same forward call
\* as the predictions, so get_cls_layer_loss never combines predictions of one
\* call with labels of an earlier one.
C8_LabelsOfSameCall ==
    /\ {"cls_preds", "cls_type_preds", "box_cls_labels"} \subseteq DOMAIN forward_ret_dict =>
           /\ forward_ret_dict["box_cls_labels"].gt_boxes.id =
                  forward_ret_dict["cls_preds"].src
           /\ forward_ret_dict["box_cls_labels"].gt_boxes.id =
                  forward_ret_dict["cls_type_preds"].src
    /\ (op = "get_cls_layer_loss" /\ loss_ret.status = "ok") =>
           \A t \in BagToSet(loss_ret.cls_loss) : t.preds.src = t.targets.labels.gt_boxes.id

====
